---- MODULE Spec2Model ----
(***************************************************************************)
(* Task scheduler and lease-based locking of PYBOSSA (pybossa/sched.py,    *)
(* pybossa/api/__init__.py).                                               *)
(*                                                                         *)
(* The relational store is the pair (task_state, task_run) over a fixed    *)
(* task table; the fast key-value store is `locks`.  Request handlers run  *)
(* concurrently and share nothing but the two stores.  The LockManager     *)
(* class (pybossa/redis_lock.py) is modelled from its contract.            *)
(*                                                                         *)
(* Python's None is the falsy value of each column type: 0 for a user id,  *)
(* "" for an IP address or an external UID.  Time is counted in lease      *)
(* units: a lease is stored as the number of time units it still has to    *)
(* live, 0 meaning that no lease exists.                                   *)
(***************************************************************************)
EXTENDS Integers, Sequences, FiniteSets, Bags, TLC

\* ------------------------------------------------------------------ bounds
\* Largest registered user id (user ids are 1..MaxUser).
MaxUser == 2
\* Most TaskRun rows the store holds.
MaxTaskRuns == 3
\* Request handlers that run at the same time (size of the worker pool).
MaxWorkers == 2

\* ------------------------------------------------------- program constants
DEFAULT_SCHEDULER == "locked_scheduler"
KEY_PREFIX == "pybossa:project:task_requested:timestamps"
\* ContributionsGuard.STAMP_TTL, in lease units.
TIMEOUT == 2
\* LIMIT of the candidate query of the locked policy.
LOCKED_BATCH == 10
\* Largest offset the locked policy accepts.
MAX_LOCKED_OFFSET == 2

NoUser == 0
NoStr == ""
NoTask == 0

\* --------------------------------------------------------- relational data
\* Project 4 has more tasks than the candidate query of the locked policy
\* reads in one batch; project 5 has one task that takes three answers.
\* There is no project 3.
Projects == {1, 2, 4, 5}
TaskIds == 1..16
\* The task table: rows are created by project owners and never change,
\* except for `state`, which is the variable task_state.  n_favs is the
\* length of fav_user_ids.  Tasks 5 to 15 are the tasks of project 4, those
\* with an even id at the higher priority.
Task ==
    [t \in TaskIds |->
        CASE t = 1 -> [id |-> 1, project_id |-> 1, n_answers |-> 2, priority_0 |-> 0, n_favs |-> 0]
          [] t = 2 -> [id |-> 2, project_id |-> 2, n_answers |-> 1, priority_0 |-> 0, n_favs |-> 1]
          [] t = 3 -> [id |-> 3, project_id |-> 2, n_answers |-> 2, priority_0 |-> 1, n_favs |-> 0]
          [] t = 4 -> [id |-> 4, project_id |-> 2, n_answers |-> 1, priority_0 |-> 1, n_favs |-> 0]
          [] t = 16 -> [id |-> 16, project_id |-> 5, n_answers |-> 3, priority_0 |-> 0, n_favs |-> 0]
          [] OTHER -> [id |-> t, project_id |-> 4, n_answers |-> 1, priority_0 |-> (t + 1) % 2, n_favs |-> 0]]

TasksOf(project_id) == { t \in TaskIds : Task[t].project_id = project_id }

UserIds == 0..MaxUser
Ips == {NoStr, "10.0.0.1", "10.0.0.2"}
ExternalUids == {NoStr, "x1"}

\* What the endpoint passes to the scheduler for a requester: user_id,
\* user_ip, external_uid.  The fifth one is user 1 signed in and asking with
\* an external_uid argument, the last one an anonymous requester at a second
\* address.
Requesters ==
    { [user_id |-> 1, user_ip |-> NoStr, external_uid |-> NoStr],
      [user_id |-> 2, user_ip |-> NoStr, external_uid |-> NoStr],
      [user_id |-> NoUser, user_ip |-> "10.0.0.1", external_uid |-> NoStr],
      [user_id |-> NoUser, user_ip |-> "10.0.0.1", external_uid |-> "x1"],
      [user_id |-> 1, user_ip |-> NoStr, external_uid |-> "x1"],
      [user_id |-> NoUser, user_ip |-> "10.0.0.2", external_uid |-> NoStr] }

VARIABLES
    project_info,   \* project id -> value of info['sched'] ("" when absent)
    task_state,     \* task id -> "ongoing" | "completed"
    task_run,       \* bag of TaskRun rows
    locks,          \* lock key -> client id -> remaining lease time
    pc,             \* requester -> position of its request handler
    rows,           \* requester -> rows of the locked policy still to visit
    skipped,        \* requester -> `skipped` of get_locked_task
    req,            \* requester -> arguments of the running request
    last,           \* the operation that completed last, with its result
    trace           \* the last Lock Manager calls made directly

vars == <<project_info, task_state, task_run, locks, pc, rows, skipped, req,
          last, trace>>

\* ----------------------------------------------------------- lock manager
\* The characters of the decimal digits.
DigitChars == <<"0", "1", "2", "3", "4", "5", "6", "7", "8", "9">>

\* '{0}'.format(n) for an integer n >= 0: its decimal digits, as a sequence
\* of characters.
RECURSIVE format(_)
format(n) ==
    IF n < 10 THEN <<DigitChars[n + 1]>>
    ELSE format(n \div 10) \o <<DigitChars[(n % 10) + 1]>>

\* KEY_PREFIX.format without the separator between the two ids.
get_key_unseparated(project_id, task_id) ==
    <<KEY_PREFIX, ":">> \o format(project_id) \o format(task_id)

\* KEY_PREFIX.format(project_id, task_id): the key as the sequence of the
\* prefix and of the characters that follow it.
get_key(project_id, task_id) ==
    <<KEY_PREFIX, ":">> \o format(project_id) \o <<":">> \o format(task_id)

Keys == { get_key(Task[t].project_id, t) : t \in TaskIds }

\* Identities holding a non-expired lease on key.
Holders(lk, key) == { c \in UserIds : lk[key][c] > 0 }

\* LockManager.acquire_lock without the branch for a caller that already
\* holds a lease.
LockManager_acquire_lock_recount(lk, key, client_id, limit) ==
    IF Cardinality(Holders(lk, key)) < limit
    THEN [ok |-> TRUE, locks |-> [lk EXCEPT ![key][client_id] = TIMEOUT]]
    ELSE [ok |-> FALSE, locks |-> lk]

\* LockManager.acquire_lock counting the lease of the caller among those
\* that use up the quota.
LockManager_acquire_lock_own_slot(lk, key, client_id, limit) ==
    IF Cardinality(Holders(lk, key)) < limit
    THEN [ok |-> TRUE, locks |-> [lk EXCEPT ![key][client_id] = TIMEOUT]]
    ELSE [ok |-> FALSE, locks |-> [lk EXCEPT ![key][client_id] = 0]]

\* LockManager.acquire_lock: [ok, locks] after the call.
LockManager_acquire_lock(lk, key, client_id, limit) ==
    IF lk[key][client_id] > 0
    THEN [ok |-> TRUE, locks |-> [lk EXCEPT ![key][client_id] = TIMEOUT]]
    ELSE IF Cardinality(Holders(lk, key)) < limit
         THEN [ok |-> TRUE, locks |-> [lk EXCEPT ![key][client_id] = TIMEOUT]]
         ELSE [ok |-> FALSE, locks |-> lk]

LockManager_has_lock(lk, key, client_id) == lk[key][client_id] > 0

\* LockManager.release_lock deleting every lease of the key.
LockManager_release_lock_key(lk, key, client_id) ==
    [lk EXCEPT ![key] = [c \in UserIds |-> 0]]

LockManager_release_lock(lk, key, client_id) ==
    [lk EXCEPT ![key][client_id] = 0]

\* has_lock answering for the key instead of the identity.
has_lock_any_holder(lk, project_id, task_id, user_id) ==
    Holders(lk, get_key(project_id, task_id)) # {}

has_lock(lk, project_id, task_id, user_id) ==
    LockManager_has_lock(lk, get_key(project_id, task_id), user_id)

acquire_lock_quota(lk, project_id, task_id, user_id, limit) ==
    LockManager_acquire_lock(lk, get_key(project_id, task_id), user_id, limit + 1)

acquire_lock(lk, project_id, task_id, user_id, limit) ==
    LockManager_acquire_lock(lk, get_key(project_id, task_id), user_id, limit)

release_lock_dropped(lk, project_id, task_id, user_id) == lk

release_lock(lk, project_id, task_id, user_id) ==
    LockManager_release_lock(lk, get_key(project_id, task_id), user_id)

\* ---------------------------------------------------------------- records
NoResult == [status |-> "none", tasks |-> <<>>]
\* A completed operation: its name, arguments and result; `held` tells
\* whether the caller held a lease on the task when the operation began.
OpHeld(name, project_id, task_id, user, arg, held, result) ==
    [op |-> name, project_id |-> project_id, task_id |-> task_id,
     user |-> user, arg |-> arg, held |-> held, result |-> result]
Op(name, project_id, task_id, user, arg, result) ==
    OpHeld(name, project_id, task_id, user, arg, FALSE, result)
NoOp == Op("init", 0, 0, [user_id |-> NoUser, user_ip |-> NoStr, external_uid |-> NoStr], 0, NoResult)

Registered(u) == [user_id |-> u, user_ip |-> NoStr, external_uid |-> NoStr]
\* A step with no result of its own.
Internal(name) == Op(name, 0, 0, Registered(NoUser), 0, NoResult)

NoReq == [project_id |-> 0, task_id |-> NoTask, offset |-> 0]

\* `trace` keeps the last four Lock Manager calls, oldest first.
Push(tr, e) == <<tr[2], tr[3], tr[4], e>>

\* ------------------------------------------------------------------- Init
InitCommon ==
    /\ task_state = [t \in TaskIds |-> "ongoing"]
    /\ task_run = EmptyBag
    /\ locks = [k \in Keys |-> [c \in UserIds |-> 0]]
    /\ pc = [r \in Requesters |-> "idle"]
    /\ rows = [r \in Requesters |-> <<>>]
    /\ skipped = [r \in Requesters |-> 0]
    /\ req = [r \in Requesters |-> NoReq]
    /\ last = NoOp
    /\ trace = <<NoOp, NoOp, NoOp, NoOp>>

\* ------------------------------------------- the Lock Manager on its own
\* The three entry points of sched.py called directly on the keys of two
\* tasks, every acquire on a task with that task's n_answers as quota.
LMTasks == {1, 2}

Quota(t) == Task[t].n_answers

Bool(b) == [status |-> IF b THEN "true" ELSE "false", tasks |-> <<>>]

CallAcquire(t, u, tr) ==
    LET p == Task[t].project_id
        r == acquire_lock(locks, p, t, u, Quota(t))
        e == OpHeld("acquire_lock", p, t, Registered(u), Quota(t),
                    has_lock(locks, p, t, u), Bool(r.ok))
    IN /\ locks' = r.locks
       /\ last' = e
       /\ trace' = IF tr THEN Push(trace, e) ELSE trace
       /\ UNCHANGED <<project_info, task_state, task_run, pc, rows, skipped, req>>

CallHasLock(t, u) ==
    LET p == Task[t].project_id
    IN /\ last' = Op("has_lock", p, t, Registered(u), 0, Bool(has_lock(locks, p, t, u)))
       /\ UNCHANGED <<project_info, task_state, task_run, locks, pc, rows, skipped, req, trace>>

CallRelease(t, u, tr) ==
    LET p == Task[t].project_id
        e == OpHeld("release_lock", p, t, Registered(u), 0,
                    has_lock(locks, p, t, u), NoResult)
    IN /\ locks' = release_lock(locks, p, t, u)
       /\ last' = e
       /\ trace' = IF tr THEN Push(trace, e) ELSE trace
       /\ UNCHANGED <<project_info, task_state, task_run, pc, rows, skipped, req>>

\* Time passes and no lease ever expires.
Tick_no_expiry ==
    /\ locks' = locks
    /\ last' = Internal("tick")
    /\ UNCHANGED <<project_info, task_state, task_run, pc, rows, skipped, req, trace>>

\* One unit of time passes: every lease is one unit closer to its expiry.
Tick ==
    /\ locks' = [k \in Keys |-> [c \in UserIds |->
                    IF locks[k][c] > 0 THEN locks[k][c] - 1 ELSE 0]]
    /\ last' = Internal("tick")
    /\ UNCHANGED <<project_info, task_state, task_run, pc, rows, skipped, req, trace>>

InitLM ==
    /\ InitCommon
    /\ project_info = [p \in Projects |-> "locked_scheduler"]

NextLM ==
    \/ \E t \in LMTasks, u \in UserIds : CallAcquire(t, u, FALSE)
    \/ \E t \in LMTasks, u \in UserIds : CallHasLock(t, u)
    \/ \E t \in LMTasks, u \in UserIds : CallRelease(t, u, FALSE)
    \/ Tick

SpecLM == InitLM /\ [][NextLM]_vars

\* The same calls on the task of quota 1, with the calls remembered.
NextRelease ==
    \/ \E u \in UserIds : CallAcquire(2, u, TRUE)
    \/ \E u \in UserIds : CallRelease(2, u, TRUE)
    \/ Tick

SpecRelease == InitLM /\ [][NextRelease]_vars

\* Time does not stop.
LiveRelease == SpecRelease /\ WF_vars(Tick)

\* ------------------------------------------------ Lock Manager properties
KeyOf(t) == get_key(Task[t].project_id, t)

\* C1: Quota invariant.  On every key, whatever the interleaving of acquire
\* calls made with quota Q by any number of identities, at most Q distinct
\* identities hold a non-expired lease at the same time.
C1_QuotaInvariant ==
    \A t \in LMTasks : Cardinality(Holders(locks, KeyOf(t))) <= Quota(t)

\* An acquire was refused on the key of quota 2 because two other
\* identities hold it.
C1_Witness ==
    /\ last.op = "acquire_lock" /\ last.task_id = 1
    /\ last.result.status = "false"
    /\ Cardinality(Holders(locks, KeyOf(1))) = Quota(1)
    /\ last.user.user_id \notin Holders(locks, KeyOf(1))

\* C5: Idempotent acquire.  An acquire by an identity that already holds a
\* non-expired lease on the key returns true, leaves the set of holders of
\* the key as it was, and leaves every other identity's acquire with the
\* result it would have had before.
C5_IdempotentAcquire ==
    [][ \A t \in LMTasks, u \in UserIds :
          (CallAcquire(t, u, FALSE) /\ has_lock(locks, Task[t].project_id, t, u))
          => /\ last'.result.status = "true"
             /\ Holders(locks', KeyOf(t)) = Holders(locks, KeyOf(t))
             /\ \A v \in UserIds \ {u} :
                   acquire_lock(locks', Task[t].project_id, t, v, Quota(t)).ok
                     = acquire_lock(locks, Task[t].project_id, t, v, Quota(t)).ok ]_vars

\* A holder re-acquired the key of quota 1 while it was full.
C5_Witness ==
    /\ last.op = "acquire_lock" /\ last.task_id = 2 /\ last.held
    /\ last.result.status = "true"
    /\ Holders(locks, KeyOf(2)) = {last.user.user_id}

\* C6: Release frees capacity.  With quota 1, after A acquired (true) and
\* B was refused (false), once A has released, B's next acquire succeeds.
IsCall(e, name, t, u) == e.op = name /\ e.task_id = t /\ e.user.user_id = u

C6_ReleaseFreesCapacity ==
    \A a \in UserIds : \A b \in UserIds \ {a} :
        ( /\ IsCall(trace[1], "acquire_lock", 2, a) /\ trace[1].result.status = "true"
          /\ IsCall(trace[2], "acquire_lock", 2, b) /\ trace[2].result.status = "false"
          /\ IsCall(trace[3], "release_lock", 2, a)
          /\ IsCall(trace[4], "acquire_lock", 2, b) )
        => trace[4].result.status = "true"

C6_Witness ==
    /\ IsCall(trace[1], "acquire_lock", 2, 1) /\ trace[1].result.status = "true"
    /\ IsCall(trace[2], "acquire_lock", 2, 2) /\ trace[2].result.status = "false"
    /\ IsCall(trace[3], "release_lock", 2, 1) /\ trace[3].held
    /\ IsCall(trace[4], "acquire_lock", 2, 2) /\ trace[4].result.status = "true"
    /\ Quota(2) = 1

\* C10: Abandoned locks are reclaimed.  A lease whose holder does not
\* acquire again ends (at the latest by TTL expiry): no lease is held for
\* ever; and once a tick has expired a lease, its holder has no lock and any
\* identity's acquire on that task with the task's quota succeeds.
Refreshed(t, u) == IsCall(last, "acquire_lock", t, u)

C10_AbandonedReclaimed ==
    /\ \A u \in UserIds :
          (locks[KeyOf(2)][u] > 0 /\ ~Refreshed(2, u))
            ~> (locks[KeyOf(2)][u] = 0 \/ Refreshed(2, u))
    /\ [][ \A t \in LMTasks, u \in UserIds :
             (Tick /\ locks[KeyOf(t)][u] = 1)
             => /\ ~has_lock(locks', Task[t].project_id, t, u)
                /\ \A v \in UserIds :
                      acquire_lock(locks', Task[t].project_id, t, v, Quota(t)).ok ]_vars

\* On the key of quota 1, b was admitted right after a, who never released:
\* a's lease had expired.
C10_Witness ==
    /\ trace[3].op = "acquire_lock" /\ trace[3].result.status = "true"
    /\ trace[4].op = "acquire_lock" /\ trace[4].result.status = "true"
    /\ trace[3].user # trace[4].user
    /\ ~trace[4].held
    /\ ~has_lock(locks, 2, 2, trace[3].user.user_id)

\* C11: has.  has_lock(project, task, identity) is true if and only if a
\* non-expired lease of exactly that identity exists on exactly that key: it
\* is false for an identity that never acquired, that released or whose
\* lease expired, even when other identities hold leases on the key.
C11_HasLock ==
    /\ last.op = "has_lock"
         => (last.result.status = "true")
              = (locks[KeyOf(last.task_id)][last.user.user_id] > 0)
    /\ \A t \in LMTasks, u \in UserIds :
          has_lock(locks, Task[t].project_id, t, u) = (u \in Holders(locks, KeyOf(t)))
    /\ last.op = "release_lock"
         => ~has_lock(locks, last.project_id, last.task_id, last.user.user_id)
    /\ (last.op = "acquire_lock" /\ last.result.status = "false")
         => ~has_lock(locks, last.project_id, last.task_id, last.user.user_id)

\* has_lock answered false to an identity without a lease on a key that
\* another identity holds.
C11_Witness ==
    /\ last.op = "has_lock" /\ last.result.status = "false"
    /\ Holders(locks, KeyOf(last.task_id)) # {}
    /\ last.user.user_id \notin Holders(locks, KeyOf(last.task_id))

\* C12: release.  release_lock(project, task, identity) removes only that
\* identity's lease on that key: every other lease, on this key and on the
\* others, is as before; when the identity holds no lease on the key the
\* call changes nothing and raises no error.
C12_ReleaseFrame ==
    [][ \A t \in LMTasks, u \in UserIds :
          CallRelease(t, u, FALSE)
          => /\ locks'[KeyOf(t)][u] = 0
             /\ \A k \in Keys, c \in UserIds :
                   (k # KeyOf(t) \/ c # u) => locks'[k][c] = locks[k][c]
             /\ ~has_lock(locks, Task[t].project_id, t, u) => locks' = locks
             /\ last'.result = NoResult ]_vars

\* An identity released its lease on the key of quota 2 and the other
\* holder still has its own.
C12_Witness ==
    /\ last.op = "release_lock" /\ last.task_id = 1 /\ last.held
    /\ Cardinality(Holders(locks, KeyOf(1))) = 1
    /\ last.user.user_id \notin Holders(locks, KeyOf(1))

\* -------------------------------------------------------- relational store
\* The TaskRun row the submission endpoint stores for a requester: exactly
\* one identity channel, user id before external uid before IP address.
TaskRunRow(r, t) ==
    [task_id |-> t, project_id |-> Task[t].project_id,
     user_id |-> r.user_id,
     user_ip |-> IF r.user_id = NoUser /\ r.external_uid = NoStr THEN r.user_ip ELSE NoStr,
     external_uid |-> IF r.user_id = NoUser THEN r.external_uid ELSE NoStr]

TaskRuns(tr) == BagToSet(tr)

\* COUNT(task_run.task_id) of the LEFT JOIN: TaskRun rows of task t.
TaskCount(tr, t) ==
    LET S == { x \in TaskRuns(tr) : x.task_id = t }
    IN BagCardinality([x \in S |-> tr[x]])

\* ORDER BY priority_0 DESC
LockedBefore_priority_only(a, b) == Task[a].priority_0 >= Task[b].priority_0

\* ORDER BY priority_0 DESC, id ASC
LockedBefore(a, b) ==
    \/ Task[a].priority_0 > Task[b].priority_0
    \/ Task[a].priority_0 = Task[b].priority_0 /\ a <= b

RECURSIVE LockedOrder(_)
LockedOrder(S) ==
    IF S = {} THEN <<>>
    ELSE LET first == CHOOSE a \in S : \A b \in S : LockedBefore(a, b)
         IN <<first>> \o LockedOrder(S \ {first})

\* The candidate query without its LIMIT.
Limit_unbounded(q, n) == q

Limit(q, n) == SubSeq(q, 1, IF Len(q) < n THEN Len(q) ELSE n)

\* The candidate query of get_locked_task: rows (task id, taskcount,
\* n_answers).  A NULL :user_id compares equal to no row.
LockedRows(ts, tr, project_id, user_id) ==
    LET done(t) == \E x \in TaskRuns(tr) :
                      /\ x.project_id = project_id
                      /\ user_id # NoUser /\ x.user_id = user_id
                      /\ x.task_id = t
        S == { t \in TaskIds : /\ ~done(t)
                               /\ Task[t].project_id = project_id
                               /\ ts[t] # "completed" }
        q == LockedOrder(S)
    IN Limit([i \in 1..Len(q) |->
                 [task_id |-> q[i], taskcount |-> TaskCount(tr, q[i]),
                  n_answers |-> Task[q[i]].n_answers]], LOCKED_BATCH)

\* --------------------------------------------------------------- dispatcher
\* get_project_scheduler without the mapping of 'default'.
get_project_scheduler_stored(info, project_id) ==
    IF info[project_id] = NoStr THEN "default" ELSE info[project_id]

get_project_scheduler(info, project_id) ==
    LET scheduler == IF info[project_id] = NoStr THEN "default" ELSE info[project_id]
    IN IF scheduler = "default" THEN DEFAULT_SCHEDULER ELSE scheduler

\* sched_map with unknown names routed to the depth-first policy.
sched_map_unknown_depth_first(sched) ==
    CASE sched = "default" -> "get_locked_task"
      [] sched = "breadth_first" -> "get_breadth_first_task"
      [] sched = "depth_first" -> "get_depth_first_task"
      [] sched = "locked_scheduler" -> "get_locked_task"
      [] sched = "incremental" -> "get_incremental_task"
      [] sched = NoStr -> "get_locked_task"
      [] OTHER -> "get_depth_first_task"

\* sched_map.get(sched, sched_map['default']) of new_task
sched_map(sched) ==
    CASE sched = "default" -> "get_locked_task"
      [] sched = "breadth_first" -> "get_breadth_first_task"
      [] sched = "depth_first" -> "get_depth_first_task"
      [] sched = "locked_scheduler" -> "get_locked_task"
      [] sched = "incremental" -> "get_incremental_task"
      [] OTHER -> "get_locked_task"

\* can_post testing the stored name instead of the resolved one.
can_post_stored_name(info, lk, project_id, task_id, user_id) ==
    IF info[project_id] = "locked_scheduler"
    THEN has_lock(lk, project_id, task_id, user_id)
    ELSE TRUE

can_post(info, lk, project_id, task_id, user_id) ==
    IF get_project_scheduler(info, project_id) = "locked_scheduler"
    THEN has_lock(lk, project_id, task_id, user_id)
    ELSE TRUE

\* after_save releasing whatever the policy of the project.
after_save_any_policy(info, lk, project_id, task_id, user_id) ==
    release_lock(lk, project_id, task_id, user_id)

\* The lock store after after_save.
after_save(info, lk, project_id, task_id, user_id) ==
    IF get_project_scheduler(info, project_id) = "locked_scheduler"
    THEN release_lock(lk, project_id, task_id, user_id)
    ELSE lk

\* The viewers of a task: `id`, is_anonymous(), `admin` and `subadmin` of
\* the user object; an anonymous viewer has no id.
Viewer ==
    << [id |-> 1, is_anonymous |-> FALSE, admin |-> FALSE, subadmin |-> FALSE],
       [id |-> 2, is_anonymous |-> FALSE, admin |-> TRUE, subadmin |-> FALSE],
       [id |-> 2, is_anonymous |-> FALSE, admin |-> FALSE, subadmin |-> TRUE],
       [id |-> NoUser, is_anonymous |-> TRUE, admin |-> FALSE, subadmin |-> FALSE] >>

\* has_read_access granting the privilege to administrators only.
has_read_access_admin_only(user) == ~user.is_anonymous /\ user.admin

has_read_access(user) == ~user.is_anonymous /\ (user.admin \/ user.subadmin)

can_read_task(info, lk, task_id, user) ==
    LET project_id == Task[task_id].project_id
    IN IF get_project_scheduler(info, project_id) = "locked_scheduler"
       THEN has_read_access(user) \/ has_lock(lk, project_id, task_id, user.id)
       ELSE TRUE

\* A viewer asks to read a task.
CanReadTask(i, t) ==
    /\ last' = Op("can_read_task", Task[t].project_id, t, Registered(Viewer[i].id), i,
                  Bool(can_read_task(project_info, locks, t, Viewer[i])))
    /\ UNCHANGED <<project_info, task_state, task_run, locks, pc, rows, skipped, req, trace>>

\* ------------------------------------------------------------ locked policy
Tasks(q) == [status |-> "tasks", tasks |-> q]
BadRequest == [status |-> "BadRequest", tasks |-> <<>>]

\* `if offset > 2: raise BadRequest()`
InvalidOffset_off_by_one(offset) == offset > MAX_LOCKED_OFFSET + 1

InvalidOffset(offset) == offset > MAX_LOCKED_OFFSET

\* A worker of the pool is free to take a request.
WorkerFree == Cardinality({ r \in Requesters : pc[r] # "idle" }) < MaxWorkers

\* new_task routed to get_locked_task, up to the candidate query.
GetLockedTaskBegin(r, p, offset) ==
    /\ pc[r] = "idle"
    /\ WorkerFree
    /\ sched_map(project_info[p]) = "get_locked_task"
    /\ IF InvalidOffset(offset)
       THEN /\ last' = Op("get_locked_task", p, NoTask, r, offset, BadRequest)
            /\ UNCHANGED <<pc, rows, skipped, req>>
       ELSE /\ rows' = [rows EXCEPT ![r] = LockedRows(task_state, task_run, p, r.user_id)]
            /\ skipped' = [skipped EXCEPT ![r] = 0]
            /\ req' = [req EXCEPT ![r] = [project_id |-> p, task_id |-> NoTask, offset |-> offset]]
            /\ pc' = [pc EXCEPT ![r] = "loop"]
            /\ last' = Internal("step")
    /\ UNCHANGED <<project_info, task_state, task_run, locks, trace>>

\* One iteration of the loop over the rows.
GetLockedTaskStep(r) ==
    /\ pc[r] = "loop"
    /\ rows[r] # <<>>
    /\ LET row == Head(rows[r])
           p == req[r].project_id
           remaining == row.n_answers - row.taskcount
           a == acquire_lock(locks, p, row.task_id, r.user_id, remaining)
       IN /\ locks' = a.locks
          /\ IF a.ok /\ skipped[r] = req[r].offset
             THEN /\ pc' = [pc EXCEPT ![r] = "idle"]
                  /\ rows' = [rows EXCEPT ![r] = <<>>]
                  /\ skipped' = [skipped EXCEPT ![r] = 0]
                  /\ req' = [req EXCEPT ![r] = NoReq]
                  /\ last' = OpHeld("get_locked_task", p, row.task_id, r, req[r].offset,
                                    has_lock(locks, p, row.task_id, r.user_id),
                                    Tasks(<<row.task_id>>))
             ELSE /\ rows' = [rows EXCEPT ![r] = Tail(@)]
                  /\ skipped' = [skipped EXCEPT ![r] = IF a.ok THEN @ + 1 ELSE @]
                  /\ last' = Internal("step")
                  /\ UNCHANGED <<pc, req>>
    /\ UNCHANGED <<project_info, task_state, task_run, trace>>

\* The loop ran out of rows: return None.
GetLockedTaskNone(r) ==
    /\ pc[r] = "loop"
    /\ rows[r] = <<>>
    /\ pc' = [pc EXCEPT ![r] = "idle"]
    /\ skipped' = [skipped EXCEPT ![r] = 0]
    /\ req' = [req EXCEPT ![r] = NoReq]
    /\ last' = Op("get_locked_task", req[r].project_id, NoTask, r, req[r].offset, NoResult)
    /\ UNCHANGED <<project_info, task_state, task_run, locks, rows, trace>>

\* The lock store cannot be reached: the LockManager call raises.
StoreError == [status |-> "ConnectionError", tasks |-> <<>>]

\* The loop of get_locked_task reading a failed acquire as a refused one.
LoopOutcome_lock_denied(acquired, n_skipped, offset) ==
    CASE acquired = "raised" -> "next"
      [] acquired = "true" /\ n_skipped = offset -> "return"
      [] acquired = "true" -> "skip"
      [] OTHER -> "next"

\* The loop of get_locked_task counting the refused acquires as skipped.
LoopOutcome_count_refused(acquired, n_skipped, offset) ==
    CASE acquired = "raised" -> "raise"
      [] acquired = "true" /\ n_skipped = offset -> "return"
      [] acquired = "true" -> "next"
      [] OTHER -> "skip"

\* What one iteration of the loop of get_locked_task does with the outcome
\* of acquire_lock ("true", "false", or "raised" when the call raised): the
\* loop has no exception handler.
LoopOutcome(acquired, n_skipped, offset) ==
    CASE acquired = "raised" -> "raise"
      [] acquired = "true" /\ n_skipped = offset -> "return"
      [] acquired = "true" -> "skip"
      [] OTHER -> "next"

\* One iteration of the loop while the lock store is unavailable.
GetLockedTaskOutage(r) ==
    /\ pc[r] = "loop"
    /\ rows[r] # <<>>
    /\ LET row == Head(rows[r])
           p == req[r].project_id
           outcome == LoopOutcome("raised", skipped[r], req[r].offset)
       IN IF outcome \in {"raise", "return"}
          THEN /\ pc' = [pc EXCEPT ![r] = "idle"]
               /\ rows' = [rows EXCEPT ![r] = <<>>]
               /\ skipped' = [skipped EXCEPT ![r] = 0]
               /\ req' = [req EXCEPT ![r] = NoReq]
               /\ last' = IF outcome = "raise"
                          THEN Op("get_locked_task", p, NoTask, r, req[r].offset, StoreError)
                          ELSE Op("get_locked_task", p, row.task_id, r, req[r].offset,
                                  Tasks(<<row.task_id>>))
          ELSE /\ rows' = [rows EXCEPT ![r] = Tail(@)]
               /\ skipped' = [skipped EXCEPT ![r] = IF outcome = "skip" THEN @ + 1 ELSE @]
               /\ last' = Internal("step")
               /\ UNCHANGED <<pc, req>>
    /\ UNCHANGED <<project_info, task_state, task_run, locks, trace>>

\* The loop of get_locked_task run to its end on the rows q, starting from
\* the lock store lk: the result and the lock store it leaves.
RECURSIVE LockedLoop(_, _, _, _, _, _)
LockedLoop(q, lk, project_id, user_id, n_skipped, offset) ==
    IF q = <<>> THEN [result |-> NoResult, locks |-> lk]
    ELSE LET row == Head(q)
             a == acquire_lock(lk, project_id, row.task_id, user_id, row.n_answers - row.taskcount)
             outcome == LoopOutcome(IF a.ok THEN "true" ELSE "false", n_skipped, offset)
         IN IF outcome = "return"
            THEN [result |-> Tasks(<<row.task_id>>), locks |-> a.locks]
            ELSE LockedLoop(Tail(q), a.locks, project_id, user_id,
                            IF outcome = "skip" THEN n_skipped + 1 ELSE n_skipped, offset)

\* get_locked_task run without any other request in between.
get_locked_task(ts, tr, lk, project_id, user_id, offset) ==
    IF InvalidOffset(offset) THEN [result |-> BadRequest, locks |-> lk]
    ELSE LockedLoop(LockedRows(ts, tr, project_id, user_id), lk, project_id, user_id, 0, offset)

\* new_task routed to get_locked_task, the whole call in one step.
GetLockedTask(r, p, offset) ==
    LET c == get_locked_task(task_state, task_run, locks, p, r.user_id, offset)
        t == IF c.result.tasks = <<>> THEN NoTask ELSE c.result.tasks[1]
    IN /\ pc[r] = "idle"
       /\ sched_map(project_info[p]) = "get_locked_task"
       /\ locks' = c.locks
       /\ last' = OpHeld("get_locked_task", p, t, r, offset,
                         t # NoTask /\ has_lock(locks, p, t, r.user_id), c.result)
       /\ UNCHANGED <<project_info, task_state, task_run, pc, rows, skipped, req, trace>>

\* ------------------------------------------------------- new-task endpoint
\* A JSON document: an object or an array, built from the tasks in `items`
\* (each task as task.dictize() gives it).
Json(type, items) == [json |-> type, items |-> items]

\* The new-task endpoint answering every non-empty result with an array.
new_task_response_array(result) ==
    IF result.status = "none"
    THEN [ok |-> TRUE, body |-> Json("object", <<>>)]
    ELSE IF result.status = "tasks"
         THEN IF Len(result.tasks) = 0
              THEN [ok |-> TRUE, body |-> Json("object", <<>>)]
              ELSE [ok |-> TRUE, body |-> Json("array", result.tasks)]
         ELSE [ok |-> FALSE, body |-> Json(result.status, <<>>)]

\* The new-task endpoint answering None as a missing resource.
new_task_response_none_error(result) ==
    IF result.status = "none"
    THEN [ok |-> FALSE, body |-> Json("NotFound", <<>>)]
    ELSE IF result.status = "tasks"
         THEN IF Len(result.tasks) = 0
              THEN [ok |-> TRUE, body |-> Json("object", <<>>)]
              ELSE IF Len(result.tasks) = 1
                   THEN [ok |-> TRUE, body |-> Json("object", <<result.tasks[1]>>)]
                   ELSE [ok |-> TRUE, body |-> Json("array", result.tasks)]
         ELSE [ok |-> FALSE, body |-> Json(result.status, <<>>)]

\* The response of the new-task endpoint for what sched.new_task returned
\* or raised: `ok` for a successful response, and its JSON body.
new_task_response(result) ==
    IF result.status = "none"
    THEN [ok |-> TRUE, body |-> Json("object", <<>>)]
    ELSE IF result.status = "tasks"
         THEN IF Len(result.tasks) = 0
              THEN [ok |-> TRUE, body |-> Json("object", <<>>)]
              ELSE IF Len(result.tasks) = 1
                   THEN [ok |-> TRUE, body |-> Json("object", <<result.tasks[1]>>)]
                   ELSE [ok |-> TRUE, body |-> Json("array", result.tasks)]
         ELSE [ok |-> FALSE, body |-> Json(result.status, <<>>)]

\* ------------------------------------------------------------- submission
\* The TaskRun endpoint: a requester posts an answer for a task; the answer
\* is accepted when can_post allows it, the row is stored and the task is
\* completed once it has n_answers rows.
SubmitTaskRun(r, t) ==
    LET p == Task[t].project_id
        tr == task_run (+) SetToBag({TaskRunRow(r, t)})
    IN /\ pc[r] = "idle"
       /\ WorkerFree
       /\ BagCardinality(task_run) < MaxTaskRuns
       /\ can_post(project_info, locks, p, t, r.user_id)
       /\ task_run' = tr
       /\ task_state' = [task_state EXCEPT ![t] =
                            IF TaskCount(tr, t) >= Task[t].n_answers THEN "completed" ELSE @]
       /\ pc' = [pc EXCEPT ![r] = "saved"]
       /\ req' = [req EXCEPT ![r] = [project_id |-> p, task_id |-> t, offset |-> 0]]
       /\ last' = Op("task_run", p, t, r, 0, NoResult)
       /\ UNCHANGED <<project_info, locks, rows, skipped, trace>>

\* The post-save hook of the endpoint.
AfterSave(r) ==
    /\ pc[r] = "saved"
    /\ locks' = after_save(project_info, locks, req[r].project_id, req[r].task_id, r.user_id)
    /\ pc' = [pc EXCEPT ![r] = "idle"]
    /\ req' = [req EXCEPT ![r] = NoReq]
    /\ last' = OpHeld("after_save", req[r].project_id, req[r].task_id, r, 0,
                       has_lock(locks, req[r].project_id, req[r].task_id, r.user_id),
                       NoResult)
    /\ UNCHANGED <<project_info, task_state, task_run, rows, skipped, trace>>

\* --------------------------------------------- the locked project at work
Offsets == 0..(MAX_LOCKED_OFFSET + 1)
\* Offsets requested of the one-task project: offsets 1 and 2 walk its
\* single row the same way.
ConcurrentOffsets == {0, 1, 3, 4}
\* The requesters of the locked project: two registered users and an
\* anonymous one.
LockedRequesters ==
    { r \in Requesters : r.external_uid = NoStr /\ r.user_ip \in {NoStr, "10.0.0.1"} }

Init ==
    /\ InitCommon
    /\ project_info = [p \in Projects |-> IF p = 1 THEN "default" ELSE "breadth_first"]

Next ==
    \/ \E r \in LockedRequesters, o \in ConcurrentOffsets : GetLockedTaskBegin(r, 1, o)
    \/ \E r \in LockedRequesters : GetLockedTaskStep(r)
    \/ \E r \in LockedRequesters : GetLockedTaskNone(r)
    \/ \E r \in LockedRequesters, t \in TasksOf(1) : SubmitTaskRun(r, t)
    \/ \E r \in LockedRequesters : AfterSave(r)
    \/ Tick

Spec == Init /\ [][Next]_vars

\* The same project with a lock store that can be down when it is called.
NextOutage ==
    \/ Next
    \/ \E r \in LockedRequesters : GetLockedTaskOutage(r)

SpecOutage == Init /\ [][NextOutage]_vars

\* ------------------------------------------------------ candidate selector
OrderFields == {"id", "priority_0", "fav_user_ids"}

\* The subquery of get_candidate_task_ids filtered by user id only.
TaskRunSubquery_user_only(tr, project_id, user_id, user_ip, external_uid) ==
    { x.task_id : x \in { y \in TaskRuns(tr) :
                            /\ y.project_id = project_id
                            /\ user_id # NoUser /\ y.user_id = user_id } }

\* The subquery of get_candidate_task_ids: ids of the tasks of the project
\* that have a TaskRun of the identity.
TaskRunSubquery(tr, project_id, user_id, user_ip, external_uid) ==
    LET R == { x \in TaskRuns(tr) : x.project_id = project_id }
    IN IF user_id # NoUser /\ user_ip = NoStr /\ external_uid = NoStr
       THEN { x.task_id : x \in { y \in R : y.user_id = user_id } }
       ELSE LET ip == IF user_ip = NoStr THEN "127.0.0.1" ELSE user_ip
            IN IF ip # NoStr /\ external_uid = NoStr
               THEN { x.task_id : x \in { y \in R : y.user_ip = ip } }
               ELSE { x.task_id : x \in { y \in R : y.external_uid = external_uid } }

\* The same subquery as written in get_breadth_first_task.
BreadthFirstSubquery(tr, project_id, user_id, user_ip, external_uid) ==
    LET R == { x \in TaskRuns(tr) : x.project_id = project_id }
    IN IF user_id # NoUser /\ user_ip = NoStr /\ external_uid = NoStr
       THEN { x.task_id : x \in { y \in R : y.user_id = user_id } }
       ELSE LET ip == IF user_ip = NoStr THEN "127.0.0.1" ELSE user_ip
            IN IF ip # NoStr /\ external_uid = NoStr
               THEN { x.task_id : x \in { y \in R : y.user_ip = ip } }
               ELSE { x.task_id : x \in { y \in R : y.external_uid = external_uid } }

\* The column _set_orderby_desc sorts on.
OrderKey(t, orderby) ==
    IF orderby = "fav_user_ids" THEN Task[t].n_favs ELSE Task[t][orderby]

\* q is sorted as _set_orderby_desc asks; rows with equal keys come in any
\* order.
set_orderby_desc(q, orderby, descending) ==
    \A i, j \in 1..Len(q) :
        i < j => IF descending
                 THEN OrderKey(q[i], orderby) >= OrderKey(q[j], orderby)
                 ELSE OrderKey(q[i], orderby) <= OrderKey(q[j], orderby)

AllOrders(S) ==
    { q \in [1..Cardinality(S) -> S] : \A i, j \in 1..Cardinality(S) : i # j => q[i] # q[j] }

\* The page cut off at `limit` rows counted from the start of the list.
Page_limit_first(q, limit, offset) ==
    SubSeq(q, offset + 1, IF limit < Len(q) THEN limit ELSE Len(q))

\* query.limit(limit).offset(offset).all()
Page(q, limit, offset) ==
    SubSeq(q, offset + 1, IF offset + limit < Len(q) THEN offset + limit ELSE Len(q))

\* get_candidate_task_ids without the filter on the state of the task.
get_candidate_task_ids_any_state(ts, tr, project_id, who, limit, offset, orderby, descending) ==
    LET sub == TaskRunSubquery(tr, project_id, who.user_id, who.user_ip, who.external_uid)
        S == { t \in TaskIds : t \notin sub /\ Task[t].project_id = project_id }
    IN { Page(q, limit, offset) :
           q \in { o \in AllOrders(S) : set_orderby_desc(o, orderby, descending) } }

\* get_candidate_task_ids: the results the query can produce; `who` holds
\* the arguments user_id, user_ip and external_uid.
get_candidate_task_ids(ts, tr, project_id, who, limit, offset, orderby, descending) ==
    LET sub == TaskRunSubquery(tr, project_id, who.user_id, who.user_ip, who.external_uid)
        S == { t \in TaskIds : /\ t \notin sub
                               /\ Task[t].project_id = project_id
                               /\ ts[t] # "completed" }
    IN { Page(q, limit, offset) :
           q \in { o \in AllOrders(S) : set_orderby_desc(o, orderby, descending) } }

get_depth_first_task(ts, tr, project_id, who, limit, offset, orderby, descending) ==
    get_candidate_task_ids(ts, tr, project_id, who, limit, offset, orderby, descending)

\* get_incremental_task: one task drawn at random from the candidates, or
\* the empty sequence for None.
get_incremental_task(ts, tr, project_id, who, limit, offset) ==
    UNION { IF Len(c) = 0 THEN {<<>>} ELSE { <<c[i]>> : i \in 1..Len(c) } :
              c \in get_candidate_task_ids(ts, tr, project_id, who, limit, offset,
                                           "priority_0", TRUE) }

\* get_breadth_first_task sorting on the requested field only.
get_breadth_first_task_unsorted(ts, tr, project_id, who, limit, offset, orderby, descending) ==
    LET sub == BreadthFirstSubquery(tr, project_id, who.user_id, who.user_ip, who.external_uid)
        S == { t \in TaskIds : Task[t].project_id = project_id /\ ts[t] # "completed" } \ sub
    IN { Page(q, limit, offset) :
           q \in { o \in AllOrders(S) : set_orderby_desc(o, orderby, descending) } }

\* get_breadth_first_task: the candidates by ascending number of task runs
\* (the sum of the task's Counter rows), then as _set_orderby_desc asks.
get_breadth_first_task(ts, tr, project_id, who, limit, offset, orderby, descending) ==
    LET sub == BreadthFirstSubquery(tr, project_id, who.user_id, who.user_ip, who.external_uid)
        S == { t \in TaskIds : Task[t].project_id = project_id /\ ts[t] # "completed" } \ sub
        sorted(q) ==
            \A i, j \in 1..Len(q) :
                i < j => \/ TaskCount(tr, q[i]) < TaskCount(tr, q[j])
                         \/ /\ TaskCount(tr, q[i]) = TaskCount(tr, q[j])
                            /\ set_orderby_desc(<<q[i], q[j]>>, orderby, descending)
    IN { Page(q, limit, offset) : q \in { o \in AllOrders(S) : sorted(o) } }

SeqToSet(q) == { q[i] : i \in 1..Len(q) }

\* A policy without locks that takes a lease on the first task it returns.
SelectWith_acquiring(r, p, name, results, arg) ==
    /\ pc[r] = "idle"
    /\ sched_map(project_info[p]) = name
    /\ \E res \in results :
          /\ last' = Op(name, p, IF res = <<>> THEN NoTask ELSE res[1], r, arg,
                        IF name = "get_incremental_task" /\ res = <<>>
                        THEN NoResult ELSE Tasks(res))
          /\ locks' = IF res = <<>> THEN locks
                      ELSE acquire_lock(locks, p, res[1], r.user_id, Task[res[1]].n_answers).locks
    /\ UNCHANGED <<project_info, task_state, task_run, pc, rows, skipped, req, trace>>

\* new_task routed to one of the policies without locks; `arg` is what the
\* caller wants remembered of the call.
SelectWith(r, p, name, results, arg) ==
    /\ pc[r] = "idle"
    /\ sched_map(project_info[p]) = name
    /\ \E res \in results :
          /\ last' = Op(name, p, IF res = <<>> THEN NoTask ELSE res[1], r, arg,
                        IF name = "get_incremental_task" /\ res = <<>>
                        THEN NoResult ELSE Tasks(res))
    /\ UNCHANGED <<project_info, task_state, task_run, locks, pc, rows, skipped, req, trace>>

Select(r, p, name, results) == SelectWith(r, p, name, results, 0)

GetDepthFirstTask(r, p, limit, offset, orderby, descending) ==
    Select(r, p, "get_depth_first_task",
           get_depth_first_task(task_state, task_run, p, r, limit, offset, orderby, descending))

GetBreadthFirstTask(r, p, limit, offset, orderby, descending) ==
    Select(r, p, "get_breadth_first_task",
           get_breadth_first_task(task_state, task_run, p, r, limit, offset, orderby, descending))

GetIncrementalTask(r, p, limit, offset) ==
    Select(r, p, "get_incremental_task",
           get_incremental_task(task_state, task_run, p, r, limit, offset))

\* The project owner sets the scheduler of the project.
SetScheduler(p, name) ==
    /\ project_info' = [project_info EXCEPT ![p] = name]
    /\ last' = Internal("sched")
    /\ UNCHANGED <<task_state, task_run, locks, pc, rows, skipped, req, trace>>

\* sched.new_task: the call goes to the policy sched_map gives for the
\* scheduler name of the project.
NewTask(r, p, limit, offset, orderby, descending) ==
    \/ GetLockedTaskBegin(r, p, offset)
    \/ GetBreadthFirstTask(r, p, limit, offset, orderby, descending)
    \/ GetDepthFirstTask(r, p, limit, offset, orderby, descending)
    \/ GetIncrementalTask(r, p, limit, offset)

\* ------------------------------------------- requests to the endpoint
NotFound == [status |-> "NotFound", tasks |-> <<>>]

\* The largest limit the endpoint passes on.
MAX_LIMIT == 100

\* int() of a string of decimal digits, the string given as the sequence of
\* its digits.
RECURSIVE int(_)
int(digits) ==
    IF digits = <<>> THEN 0
    ELSE 10 * int(SubSeq(digits, 1, Len(digits) - 1)) + digits[Len(digits)]

fuzzyboolean(value) == value \in {"true", "1", "yes"}

\* The arguments of the scheduler call without the cap on limit.
request_args_uncapped(q) ==
    [limit |-> IF q.limit # <<>> THEN int(q.limit) ELSE 1,
     offset |-> IF q.offset # <<>> THEN int(q.offset) ELSE 0,
     orderby |-> IF q.orderby # NoStr THEN q.orderby ELSE "id",
     desc |-> IF q.desc # NoStr THEN fuzzyboolean(q.desc) ELSE FALSE]

\* limit, offset, orderby and desc as _retrieve_new_task works them out of
\* the query string q; an argument that is absent or empty is falsy.
request_args(q) ==
    [limit |-> LET limit == IF q.limit # <<>> THEN int(q.limit) ELSE 1
               IN IF limit > MAX_LIMIT THEN MAX_LIMIT ELSE limit,
     offset |-> IF q.offset # <<>> THEN int(q.offset) ELSE 0,
     orderby |-> IF q.orderby # NoStr THEN q.orderby ELSE "id",
     desc |-> IF q.desc # NoStr THEN fuzzyboolean(q.desc) ELSE FALSE]

\* current_user.is_anonymous()
is_anonymous(r) == r.user_id = NoUser

\* model.task.Task(info=dict(error=...)): a task that was never stored and
\* has no id.
AnonymousErrorTask == NoTask

\* What the info of a task of a result carries.
TaskInfo(t) == IF t = AnonymousErrorTask THEN "error" ELSE "task"

\* _retrieve_new_task without the check of the project.
retrieve_route_no_not_found(found, allow_anonymous_contributors, r) ==
    IF ~found \/ (~allow_anonymous_contributors /\ is_anonymous(r)) THEN "anonymous"
    ELSE "sched"

\* _retrieve_new_task without the restriction on anonymous contributors.
retrieve_route_anonymous_allowed(found, allow_anonymous_contributors, r) ==
    IF ~found THEN "NotFound" ELSE "sched"

\* The early exits of _retrieve_new_task: `found` tells whether
\* project_repo.get returned a project.
retrieve_route(found, allow_anonymous_contributors, r) ==
    IF ~found THEN "NotFound"
    ELSE IF ~allow_anonymous_contributors /\ is_anonymous(r) THEN "anonymous"
    ELSE "sched"

\* sched.new_task as _retrieve_new_task calls it, with the arguments a; the
\* limit of the call is remembered.
NewTaskArgs(r, p, a) ==
    \/ GetLockedTaskBegin(r, p, a.offset)
    \/ SelectWith(r, p, "get_breadth_first_task", get_breadth_first_task(task_state, task_run, p, r, a.limit, a.offset, a.orderby, a.desc), a.limit)
    \/ SelectWith(r, p, "get_depth_first_task", get_depth_first_task(task_state, task_run, p, r, a.limit, a.offset, a.orderby, a.desc), a.limit)
    \/ SelectWith(r, p, "get_incremental_task", get_incremental_task(task_state, task_run, p, r, a.limit, a.offset), a.limit)

\* A request that ends in _retrieve_new_task, before any scheduler call.
EarlyExit(r, project_id, result) ==
    /\ pc[r] = "idle"
    /\ last' = Op("new_task", project_id, NoTask, r, 0, result)
    /\ UNCHANGED <<project_info, task_state, task_run, locks, pc, rows, skipped, req, trace>>

\* GET /project/<project_id>/newtask with query string q, while the project
\* has the given allow_anonymous_contributors.
NewTaskRequest(r, project_id, allow_anonymous_contributors, q) ==
    LET route == retrieve_route(project_id \in Projects, allow_anonymous_contributors, r)
    IN IF route = "NotFound" THEN EarlyExit(r, project_id, NotFound)
       ELSE IF route = "anonymous" THEN EarlyExit(r, project_id, Tasks(<<AnonymousErrorTask>>))
       ELSE NewTaskArgs(r, project_id, request_args(q))

\* ------------------------------------- the policies without locks at work
\* Project 2 under the breadth-first, depth-first and incremental policies:
\* every requester asks for tasks and answers the tasks it was handed.
Limits == {1, 2}
PageOffsets == {0, 1}
SelectScheds == {"breadth_first", "depth_first", "incremental"}

\* One requester of each kind.
SelectRequesters ==
    { r \in Requesters : /\ r.user_id # 2 /\ r.user_ip \in {NoStr, "10.0.0.1"}
                         /\ (r.user_id = NoUser \/ r.external_uid = NoStr) }

InitSelect ==
    /\ InitCommon
    /\ project_info = [p \in Projects |-> IF p = 1 THEN "default" ELSE "depth_first"]

NextSelect ==
    \/ \E s \in SelectScheds : SetScheduler(2, s)
    \/ \E r \in SelectRequesters, l \in Limits, o \in PageOffsets, f \in OrderFields, d \in BOOLEAN :
          GetDepthFirstTask(r, 2, l, o, f, d)
    \/ \E r \in SelectRequesters, l \in Limits, o \in PageOffsets, f \in OrderFields, d \in BOOLEAN :
          GetBreadthFirstTask(r, 2, l, o, f, d)
    \/ \E r \in SelectRequesters, l \in Limits, o \in PageOffsets : GetIncrementalTask(r, 2, l, o)
    \/ \E r \in SelectRequesters, t \in TasksOf(2) : SubmitTaskRun(r, t)
    \/ \E r \in SelectRequesters : AfterSave(r)

SpecSelect == InitSelect /\ [][NextSelect]_vars

\* ------------------------------------------------ locked policy properties
\* Identity with user id c has a TaskRun row for task t.
Submitted(c, t) == \E x \in TaskRuns(task_run) : x.task_id = t /\ x.user_id = c

\* Holders of a lease on task t that have not submitted an answer for it.
Working(t) == { c \in Holders(locks, KeyOf(t)) : ~Submitted(c, t) }

\* C2: under the locked policy no task is worked by more than n_answers
\* people: in every reachable state, for every task, the TaskRuns recorded
\* plus the lease holders that have not yet submitted are at most
\* n_answers.
C2_NoOverAllocation ==
    \A t \in TaskIds :
        Task[t].project_id = 1
        => TaskCount(task_run, t) + Cardinality(Working(t)) <= Task[t].n_answers

\* C3: under the locked policy, whatever the kind of the requester,
\* get_locked_task never returns a task for which the requester already has
\* a TaskRun.
C3_NeverAnsweredTask ==
    (last.op = "get_locked_task" /\ last.result.status = "tasks")
    => \A i \in 1..Len(last.result.tasks) :
          TaskRunRow(last.user, last.result.tasks[i]) \notin TaskRuns(task_run)

\* C7: Locked-offset bound.  get_locked_task with an offset greater than 2
\* raises BadRequest whatever the candidates are, and neither store nor
\* any handler state is changed by the rejected call.
C7_LockedOffsetBound ==
    [][ \A r \in LockedRequesters, o \in ConcurrentOffsets :
          (o > 2 /\ GetLockedTaskBegin(r, 1, o))
          => /\ last'.op = "get_locked_task" /\ last'.result = BadRequest
             /\ UNCHANGED <<locks, task_state, task_run, pc, rows, skipped, req>> ]_vars

\* Offset 3 was rejected while the task had a free slot for the requester.
C7_Witness ==
    /\ last.op = "get_locked_task" /\ last.arg = 3 /\ last.result = BadRequest
    /\ LockedRows(task_state, task_run, 1, last.user.user_id) # <<>>
    /\ Holders(locks, KeyOf(1)) # {}
    /\ acquire_lock(locks, 1, 1, last.user.user_id,
                    Task[1].n_answers - TaskCount(task_run, 1)).ok

\* C13: infrastructure failure is never read as admission or as emptiness.
\* When the lock store is unavailable during an acquire of get_locked_task,
\* the request ends with the error of the store, which goes through the
\* policy and through sched.new_task: no task is returned, the result is
\* not None, and no lease is written.
C13_InfrastructureFailure ==
    [][ \A r \in LockedRequesters :
          GetLockedTaskOutage(r)
          => /\ last'.op = "get_locked_task"
             /\ last'.result = StoreError
             /\ last'.result.status \notin {"tasks", "none"}
             /\ pc'[r] = "idle"
             /\ locks' = locks ]_vars

\* The request failed on the store although the task had a free slot for
\* the requester.
C13_Witness ==
    /\ last.op = "get_locked_task" /\ last.result = StoreError
    /\ LockedRows(task_state, task_run, 1, last.user.user_id) # <<>>
    /\ acquire_lock(locks, 1, 1, last.user.user_id,
                    Task[1].n_answers - TaskCount(task_run, 1)).ok

\* C14: no eligible task is not an error.  With a valid offset the locked
\* policy ends with a task or with None, never with an error; it ends with
\* None when it ran out of candidates (none, all at quota, or offset
\* exhausted), and the endpoint then answers with a successful empty
\* object.
C14_NoTaskIsNotAnError ==
    (last.op = "get_locked_task" /\ ~InvalidOffset(last.arg))
    => /\ last.result.status \in {"tasks", "none"}
       /\ new_task_response(last.result).ok
       /\ last.result.status = "none"
            => /\ last.result = NoResult
               /\ new_task_response(last.result) = [ok |-> TRUE, body |-> Json("object", <<>>)]

\* The locked policy returned None for offset 0 because the only candidate
\* is at quota.
C14_Witness ==
    /\ last.op = "get_locked_task" /\ last.arg = 0 /\ last.result = NoResult
    /\ LockedRows(task_state, task_run, 1, last.user.user_id) # <<>>
    /\ ~acquire_lock(locks, 1, 1, last.user.user_id,
                     Task[1].n_answers - TaskCount(task_run, 1)).ok

\* ------------------------------------------------------ selector properties
SelectOps == {"get_depth_first_task", "get_breadth_first_task", "get_incremental_task"}

Answered(r, t) == TaskRunRow(r, t) \in TaskRuns(task_run)

Eligible(r, p) ==
    { t \in TasksOf(p) : task_state[t] # "completed" /\ ~Answered(r, t) }

\* C24: result shape of the incremental policy.  get_incremental_task
\* returns None when the identity has no eligible candidate, and otherwise
\* exactly one task, which is one of the identity's eligible candidates.
C24_IncrementalShape ==
    last.op = "get_incremental_task"
    => IF Eligible(last.user, last.project_id) = {}
       THEN last.result = NoResult
       ELSE /\ last.result.status = "tasks"
            /\ Len(last.result.tasks) = 1
            /\ last.result.tasks[1] \in Eligible(last.user, last.project_id)

\* C25: breadth-first ordering.  The tasks returned by
\* get_breadth_first_task are eligible tasks of the project in ascending
\* order of their total TaskRun count over all identities; with offset 0 and
\* limit 1 the task returned has the least TaskRun count among the eligible
\* tasks of the identity.
C25_BreadthFirstOrdering ==
    /\ last.op = "get_breadth_first_task"
         => LET q == last.result.tasks
            IN /\ \A i \in 1..Len(q) : q[i] \in Eligible(last.user, last.project_id)
               /\ \A i, j \in 1..Len(q) :
                     i < j => TaskCount(task_run, q[i]) <= TaskCount(task_run, q[j])
    /\ \A r \in SelectRequesters, f \in OrderFields, d \in BOOLEAN :
          \A res \in get_breadth_first_task(task_state, task_run, 2, r, 1, 0, f, d) :
             IF Eligible(r, 2) = {} THEN res = <<>>
             ELSE /\ Len(res) = 1
                  /\ res[1] \in Eligible(r, 2)
                  /\ \A t \in Eligible(r, 2) :
                        TaskCount(task_run, res[1]) <= TaskCount(task_run, t)

\* The breadth-first policy returned two tasks with different TaskRun
\* counts, the one with fewer first although it has the larger id.
C25_Witness ==
    /\ last.op = "get_breadth_first_task" /\ Len(last.result.tasks) = 2
    /\ TaskCount(task_run, last.result.tasks[1]) < TaskCount(task_run, last.result.tasks[2])
    /\ last.result.tasks[1] > last.result.tasks[2]

\* C26: breadth-first tie-break.  Two calls of get_breadth_first_task with
\* the same arguments against unchanged data return the same tasks in the
\* same order, also when eligible tasks have equal TaskRun counts: for given
\* stores and arguments the call has one possible result.
C26_BreadthFirstTieBreak ==
    \A r \in SelectRequesters, l \in Limits, o \in PageOffsets, f \in OrderFields, d \in BOOLEAN :
       Cardinality(get_breadth_first_task(task_state, task_run, 2, r, l, o, f, d)) = 1

\* -------------------------------------- requests with two identity channels
\* Project 2 asked for tasks by user 1, by user 1 with an external_uid
\* argument, and by the anonymous holder of that external uid.
PrecedenceRequesters == { r \in Requesters : r.user_id = 1 \/ r.external_uid # NoStr }

NextPrecedence ==
    \/ \E sc \in {"breadth_first", "depth_first"} : SetScheduler(2, sc)
    \/ \E r \in PrecedenceRequesters, l \in Limits : GetDepthFirstTask(r, 2, l, 0, "id", FALSE)
    \/ \E r \in PrecedenceRequesters, l \in Limits : GetBreadthFirstTask(r, 2, l, 0, "id", FALSE)
    \/ \E r \in PrecedenceRequesters, t \in TasksOf(2) : SubmitTaskRun(r, t)
    \/ \E r \in PrecedenceRequesters : AfterSave(r)

SpecPrecedence == InitSelect /\ [][NextPrecedence]_vars

\* C18: identity precedence of the Candidate Selector.  When a user id is
\* supplied, alone or with an IP address or an external UID, the tasks
\* excluded are those with a TaskRun of that user id: the subquery selects
\* by user id, and no task the user has answered is returned.
C18_UserIdPrecedence ==
    /\ \A r \in PrecedenceRequesters :
          r.user_id # NoUser
          => /\ TaskRunSubquery(task_run, 2, r.user_id, r.user_ip, r.external_uid)
                  = { t \in TasksOf(2) : Submitted(r.user_id, t) }
             /\ BreadthFirstSubquery(task_run, 2, r.user_id, r.user_ip, r.external_uid)
                  = { t \in TasksOf(2) : Submitted(r.user_id, t) }
    /\ (last.op \in {"get_depth_first_task", "get_breadth_first_task"}
          /\ last.user.user_id # NoUser)
         => \A t \in SeqToSet(last.result.tasks) : ~Submitted(last.user.user_id, t)

\* C20: response encoding of the new-task endpoint.  A result of zero
\* tasks, or None, is serialized as an empty object, a result of exactly one
\* task as that single task object, and a result of two or more tasks as an
\* array with one element per task, in the order of the result.
C20_ResponseEncoding ==
    last.op \in SelectOps
    => LET res == last.result
           resp == new_task_response(res)
           n == Len(res.tasks)
       IN /\ resp.ok
          /\ (res.status = "none" \/ n = 0) => resp.body = Json("object", <<>>)
          /\ n = 1 => resp.body = Json("object", <<res.tasks[1]>>)
          /\ n >= 2 => /\ resp.body.json = "array"
                       /\ Len(resp.body.items) = n
                       /\ \A i \in 1..n : resp.body.items[i] = res.tasks[i]

\* A policy returned two tasks, answered as an array of two.
C20_Witness ==
    /\ last.op \in SelectOps /\ Len(last.result.tasks) = 2
    /\ new_task_response(last.result).body.json = "array"

\* ------------------------------------------ a project that changes policy
\* Project 1 with its scheduler set by the owner at any time; handlers run
\* one at a time.
GateScheds == {NoStr, "default", "locked_scheduler", "depth_first", "random"}

Alone == \A r \in Requesters : pc[r] = "idle"

NextGate ==
    \/ \E s \in GateScheds : SetScheduler(1, s)
    \/ \E r \in LockedRequesters, o \in ConcurrentOffsets : Alone /\ GetLockedTaskBegin(r, 1, o)
    \/ \E r \in LockedRequesters : GetLockedTaskStep(r)
    \/ \E r \in LockedRequesters : GetLockedTaskNone(r)
    \/ \E r \in LockedRequesters : Alone /\ GetDepthFirstTask(r, 1, 1, 0, "id", FALSE)
    \/ \E r \in LockedRequesters, t \in TasksOf(1) : Alone /\ SubmitTaskRun(r, t)
    \/ \E r \in LockedRequesters : AfterSave(r)
    \/ Tick

SpecGate == Init /\ [][NextGate]_vars

\* The project is configured for the locked policy: no scheduler entry,
\* 'default' or 'locked_scheduler'.
LockedPolicy(p) == project_info[p] \in {NoStr, "default", "locked_scheduler"}

\* C8: can_post.  For a project under the locked policy, can_post is true
\* exactly for the identities that hold a non-expired lock on the task: true
\* right after get_locked_task handed the task, false after after_save;
\* for a project under any other policy it is always true.
C8_CanPost ==
    /\ \A t \in TasksOf(1), u \in UserIds :
          can_post(project_info, locks, 1, t, u)
            = (LockedPolicy(1) => locks[KeyOf(t)][u] > 0)
    /\ (last.op = "get_locked_task" /\ last.result.status = "tasks" /\ LockedPolicy(1))
         => can_post(project_info, locks, 1, last.task_id, last.user.user_id)
    /\ (last.op = "after_save" /\ LockedPolicy(1))
         => ~can_post(project_info, locks, 1, last.task_id, last.user.user_id)

\* Under the 'default' scheduler the task was just handed to a requester,
\* who can post, while a user without a lock cannot.
C8_Witness ==
    /\ project_info[1] = "default"
    /\ last.op = "get_locked_task" /\ last.result.status = "tasks"
    /\ can_post(project_info, locks, 1, last.task_id, last.user.user_id)
    /\ \E u \in UserIds : ~can_post(project_info, locks, 1, last.task_id, u)

\* C9: after_save.  Under the locked policy, after after_save the identity
\* holds no lock on the task, can_post is false for it and the leases of
\* the other identities are as before, so a held slot is freed; under any
\* other policy after_save leaves the lock store as it was.
C9_AfterSave ==
    [][ \A r \in LockedRequesters :
          AfterSave(r)
          => LET p == req[r].project_id
                 t == req[r].task_id
                 u == r.user_id
             IN IF LockedPolicy(p)
                THEN /\ ~has_lock(locks', p, t, u)
                     /\ ~can_post(project_info', locks', p, t, u)
                     /\ Holders(locks', KeyOf(t)) = Holders(locks, KeyOf(t)) \ {u}
                     /\ \A k \in Keys, c \in UserIds :
                           (k # KeyOf(t) \/ c # u) => locks'[k][c] = locks[k][c]
                ELSE locks' = locks ]_vars

\* Under the locked policy after_save released a lease that was held while
\* another identity holds one.
C9_Witness ==
    /\ last.op = "after_save" /\ last.held /\ LockedPolicy(last.project_id)
    /\ ~has_lock(locks, last.project_id, last.task_id, last.user.user_id)
    /\ Holders(locks, KeyOf(last.task_id)) # {}

\* ------------------------------------------- every scheduler name at work
\* Project 1 under every scheduler name the owner can store, known or not;
\* requests go through sched.new_task and run one at a time.
DispatchScheds ==
    {NoStr, "default", "breadth_first", "depth_first", "locked_scheduler",
     "incremental", "random"}
DispatchOffsets == {0, 3}

NextDispatch ==
    \/ \E sc \in DispatchScheds : Alone /\ SetScheduler(1, sc)
    \/ \E r \in LockedRequesters, o \in DispatchOffsets :
          Alone /\ NewTask(r, 1, 1, o, "id", FALSE)
    \/ \E r \in LockedRequesters : GetLockedTaskStep(r)
    \/ \E r \in LockedRequesters : GetLockedTaskNone(r)
    \/ \E r \in LockedRequesters, t \in TasksOf(1) : Alone /\ SubmitTaskRun(r, t)
    \/ \E r \in LockedRequesters : AfterSave(r)
    \/ \E i \in DOMAIN Viewer, t \in TasksOf(1) : Alone /\ CanReadTask(i, t)

SpecDispatch == Init /\ [][NextDispatch]_vars

PolicyOps ==
    {"get_locked_task", "get_breadth_first_task", "get_depth_first_task",
     "get_incremental_task"}

\* The policy the dispatcher is to call for a scheduler name.
Routed(name) ==
    IF name = "breadth_first" THEN "get_breadth_first_task"
    ELSE IF name = "depth_first" THEN "get_depth_first_task"
    ELSE IF name = "incremental" THEN "get_incremental_task"
    ELSE "get_locked_task"

\* C15: dispatcher resolution.  sched.new_task calls the policy mapped to
\* the name: 'default', an absent name and every unknown name go to the
\* locked policy, and 'breadth_first', 'depth_first', 'incremental' and
\* 'locked_scheduler' each go to their own policy.
C15_DispatcherResolution ==
    /\ \A sc \in DispatchScheds : sched_map(sc) = Routed(sc)
    /\ last.op \in PolicyOps => last.op = Routed(project_info[last.project_id])
    /\ \A r \in Requesters :
          pc[r] = "loop" => Routed(project_info[req[r].project_id]) = "get_locked_task"

\* Under an unknown scheduler name the locked policy handed the task out.
C15_Witness ==
    /\ project_info[1] = "random"
    /\ last.op = "get_locked_task" /\ last.result.status = "tasks"
    /\ has_lock(locks, 1, last.task_id, last.user.user_id)

\* C16: resolveScheduler.  get_project_scheduler gives 'locked_scheduler'
\* for a project whose metadata has no scheduler entry or the entry
\* 'default', and the stored name otherwise.
C16_ResolveScheduler ==
    /\ get_project_scheduler(project_info, 1)
         = IF project_info[1] \in {NoStr, "default"}
           THEN "locked_scheduler" ELSE project_info[1]
    /\ \A sc \in DispatchScheds :
          get_project_scheduler([p \in Projects |-> sc], 1)
            = IF sc \in {NoStr, "default"} THEN "locked_scheduler" ELSE sc

\* In a project without scheduler entry after_save, which resolves the
\* scheduler, released the lease of the caller.
C16_Witness ==
    /\ project_info[1] = NoStr
    /\ last.op = "after_save" /\ last.held
    /\ ~has_lock(locks, 1, last.task_id, last.user.user_id)

\* C17: canRead.  Under the locked policy a viewer may read a task if and
\* only if the viewer is a non-anonymous administrator or sub-admin, or
\* holds the lock on that task; under any other policy every viewer may
\* read every task.
C17_CanRead ==
    /\ \A i \in DOMAIN Viewer, t \in TasksOf(1) :
          can_read_task(project_info, locks, t, Viewer[i])
            = IF LockedPolicy(1)
              THEN \/ ~Viewer[i].is_anonymous /\ (Viewer[i].admin \/ Viewer[i].subadmin)
                   \/ locks[KeyOf(t)][Viewer[i].id] > 0
              ELSE TRUE
    /\ last.op = "can_read_task"
         => (last.result.status = "true")
              = IF LockedPolicy(1)
                THEN \/ ~Viewer[last.arg].is_anonymous
                        /\ (Viewer[last.arg].admin \/ Viewer[last.arg].subadmin)
                     \/ locks[KeyOf(last.task_id)][Viewer[last.arg].id] > 0
                ELSE TRUE

\* Under the locked policy a sub-admin without a lock was allowed to read a
\* task that a contributor without the lock may not read.
C17_Witness ==
    /\ LockedPolicy(1)
    /\ last.op = "can_read_task" /\ last.result.status = "true"
    /\ Viewer[last.arg].subadmin
    /\ ~has_lock(locks, 1, last.task_id, Viewer[last.arg].id)
    /\ \E i \in DOMAIN Viewer : ~can_read_task(project_info, locks, last.task_id, Viewer[i])

\* C19: every task returned by any of the four policies belongs to the
\* requested project and is not in state 'completed' at the time of the
\* candidate query.
C19_ProjectAndStateFilter ==
    /\ last.op \in PolicyOps
         => \A t \in SeqToSet(last.result.tasks) :
               Task[t].project_id = last.project_id /\ task_state[t] # "completed"
    /\ \A r \in Requesters :
          pc[r] = "loop"
          => \A i \in 1..Len(rows[r]) :
                /\ Task[rows[r][i].task_id].project_id = req[r].project_id
                /\ task_state[rows[r][i].task_id] # "completed"
    /\ \A p \in {last.project_id} \cap Projects, r \in LockedRequesters :
          /\ \A l \in Limits, f \in OrderFields, d \in BOOLEAN :
                \A res \in get_candidate_task_ids(task_state, task_run, p, r, l, 0, f, d)
                             \cup get_breadth_first_task(task_state, task_run, p, r, l, 0, f, d)
                             \cup get_incremental_task(task_state, task_run, p, r, l, 0) :
                   \A t \in SeqToSet(res) :
                      Task[t].project_id = p /\ task_state[t] # "completed"
          /\ LET q == LockedRows(task_state, task_run, p, r.user_id)
             IN \A i \in 1..Len(q) :
                   Task[q[i].task_id].project_id = p /\ task_state[q[i].task_id] # "completed"

\* A policy returned the task of project 1 while a task of another project
\* sorts before it and a requester has already answered it.
C19_Witness ==
    /\ last.op \in PolicyOps /\ last.project_id = 1
    /\ last.result.tasks = <<1>>
    /\ TaskCount(task_run, 1) = 1
    /\ \E t \in TasksOf(2) : LockedBefore(t, 1)

\* ---------------------------------------------- the endpoint at work
\* Requests for the two projects and for a project that does not exist,
\* one at a time; project 1 is under the locked policy, project 2 under
\* the breadth-first, depth-first or incremental policy.
ProjectIds == {1, 2, 3}

\* Query strings: the digits of limit and offset, orderby and desc.
Query(limit, offset, orderby, desc) ==
    [limit |-> limit, offset |-> offset, orderby |-> orderby, desc |-> desc]

Queries ==
    { Query(<<>>, <<>>, NoStr, NoStr),
      Query(<<2>>, <<1>>, "priority_0", "true"),
      Query(<<1, 0, 1>>, <<>>, "fav_user_ids", NoStr),
      Query(<<2, 5, 0>>, <<3>>, NoStr, NoStr) }

EndpointRequesters == { r \in LockedRequesters : r.user_id # 2 }

NextEndpoint ==
    \/ \E sc \in SelectScheds : Alone /\ SetScheduler(2, sc)
    \/ \E r \in EndpointRequesters, p \in ProjectIds, allow \in BOOLEAN, q \in Queries :
          Alone /\ NewTaskRequest(r, p, allow, q)
    \/ \E r \in EndpointRequesters : GetLockedTaskStep(r)
    \/ \E r \in EndpointRequesters : GetLockedTaskNone(r)
    \/ \E r \in EndpointRequesters, t \in TasksOf(2) : Alone /\ SubmitTaskRun(r, t)
    \/ \E r \in EndpointRequesters : AfterSave(r)

SpecEndpoint == Init /\ [][NextEndpoint]_vars

\* C21: unknown project.  A new-task request for a project id that does
\* not exist ends in a not-found condition: no scheduler policy is called,
\* no candidate query is run and no lock is acquired or released.
C21_UnknownProject ==
    [][ \A r \in EndpointRequesters, p \in ProjectIds \ Projects, allow \in BOOLEAN, q \in Queries :
          NewTaskRequest(r, p, allow, q)
          => /\ last'.op = "new_task" /\ last'.op \notin PolicyOps
             /\ last'.result = NotFound
             /\ ~new_task_response(last'.result).ok
             /\ UNCHANGED <<locks, pc, rows, skipped, req, task_state, task_run>> ]_vars

\* A request for project 3 ended in not-found while leases are held.
C21_Witness ==
    /\ last.op = "new_task" /\ last.project_id \notin Projects
    /\ last.result = NotFound
    /\ \E k \in Keys : Holders(locks, k) # {}

\* C22: anonymous restriction.  When the project disallows anonymous
\* contributors and the requester is anonymous, the request returns
\* exactly one synthetic task whose payload carries an error; no scheduler
\* policy is called and no lock is acquired, and the synthetic task has no
\* key in the lock store, so the requester holds no lock for it.
C22_AnonymousRestriction ==
    [][ \A r \in EndpointRequesters, p \in ProjectIds \cap Projects, q \in Queries :
          (is_anonymous(r) /\ NewTaskRequest(r, p, FALSE, q))
          => /\ last'.op = "new_task" /\ last'.op \notin PolicyOps
             /\ last'.result.status = "tasks"
             /\ Len(last'.result.tasks) = 1
             /\ TaskInfo(last'.result.tasks[1]) = "error"
             /\ get_key(p, last'.result.tasks[1]) \notin Keys
             /\ new_task_response(last'.result).body = Json("object", <<AnonymousErrorTask>>)
             /\ UNCHANGED <<locks, pc, rows, skipped, req, task_state, task_run>> ]_vars

\* The anonymous requester was answered with the synthetic task for the
\* locked project while the task of the project has a free slot.
C22_Witness ==
    /\ last.op = "new_task" /\ last.project_id = 1 /\ is_anonymous(last.user)
    /\ last.result = Tasks(<<AnonymousErrorTask>>)
    /\ acquire_lock(locks, 1, 1, NoUser, Task[1].n_answers - TaskCount(task_run, 1)).ok

\* C23: request parameters.  limit defaults to 1 and a requested limit above
\* 100 is reduced to 100 before the policy is called; offset defaults to 0,
\* orderby to 'id' and desc to false; no policy is called with a limit
\* greater than 100.
C23_RequestParameters ==
    /\ \A q \in Queries :
          LET a == request_args(q)
          IN /\ a.limit = IF q.limit = <<>> THEN 1
                          ELSE IF int(q.limit) > 100 THEN 100 ELSE int(q.limit)
             /\ a.offset = IF q.offset = <<>> THEN 0 ELSE int(q.offset)
             /\ a.orderby = IF q.orderby = NoStr THEN "id" ELSE q.orderby
             /\ q.desc = NoStr => a.desc = FALSE
    /\ last.op \in SelectOps
         => /\ last.arg <= 100
            /\ last.arg \in { request_args(q).limit : q \in Queries }
    /\ \A r \in Requesters :
          pc[r] = "loop" => req[r].offset \in { request_args(q).offset : q \in Queries }

\* A policy was called with limit 100 for a request that asked for more.
C23_Witness ==
    /\ last.op \in SelectOps
    /\ last.arg = 100
    /\ Len(last.result.tasks) > 2

\* C28: the policies without locks are stateless with respect to locks.  A
\* call of get_depth_first_task, get_breadth_first_task or
\* get_incremental_task never acquires, refreshes or releases a lease,
\* whatever it returns.
C28_StatelessPolicies ==
    [][ \A r \in LockedRequesters, o \in DispatchOffsets :
          ( \/ GetDepthFirstTask(r, 1, 1, o, "id", FALSE)
            \/ GetBreadthFirstTask(r, 1, 1, o, "id", FALSE)
            \/ GetIncrementalTask(r, 1, 1, o) )
          => locks' = locks ]_vars

\* A policy without locks returned the task to a requester without a lease
\* while another identity holds a lease on it.
C28_Witness ==
    /\ last.op \in SelectOps /\ last.result.tasks = <<1>>
    /\ Holders(locks, KeyOf(1)) # {}
    /\ ~has_lock(locks, 1, 1, last.user.user_id)

\* ------------------------------- the locked policy over several candidates
\* Project 2 under the locked policy: three tasks, two of them with the
\* same priority; requests run one at a time.
WalkRequesters == LockedRequesters

NextWalk ==
    \/ \E r \in WalkRequesters, o \in Offsets : GetLockedTask(r, 2, o)
    \/ \E r \in WalkRequesters, t \in TasksOf(2) : Alone /\ SubmitTaskRun(r, t)
    \/ \E r \in WalkRequesters : AfterSave(r)

SpecWalk == InitLM /\ [][NextWalk]_vars

\* The sequences in which the ORDER BY of the candidate query can give the
\* tasks of S.
LockedOrders(S) ==
    { o \in AllOrders(S) : \A i, j \in 1..Len(o) : i < j => LockedBefore(o[i], o[j]) }

\* C27: determinism of the locked policy.  For a fixed relational store and
\* a fixed lock store, get_locked_task called with the same project,
\* identity and offset selects the same task: the candidate query can give
\* its rows in one order only, and the walk over them has no other input
\* than the lock store.
C27_LockedDeterminism ==
    \A r \in WalkRequesters :
       LET q == LockedRows(task_state, task_run, 2, r.user_id)
           ids == [i \in 1..Len(q) |-> q[i].task_id]
       IN /\ LockedOrders(SeqToSet(ids)) = {ids}
          /\ last.op = "get_locked_task" /\ last.user = r /\ last.result.status = "tasks"
               => get_locked_task(task_state, task_run, locks, 2, r.user_id, last.arg).result
                    = last.result

\* The holder of the lease on task 3 asked again and was given task 3
\* again, while task 4, of the same priority, could be granted as well.
C27_Witness ==
    /\ last.op = "get_locked_task" /\ last.arg = 0 /\ last.held
    /\ last.result = Tasks(<<3>>)
    /\ Task[3].priority_0 = Task[4].priority_0
    /\ task_state[4] # "completed"
    /\ acquire_lock(locks, 2, 4, last.user.user_id,
                    Task[4].n_answers - TaskCount(task_run, 4)).ok

\* The rows of the candidate query on which acquire_lock grants the identity
\* a lease, in the order of the query.
GrantedRows(r, p) ==
    LET q == LockedRows(task_state, task_run, p, r.user_id)
        granted(row) == acquire_lock(locks, p, row.task_id, r.user_id,
                                     row.n_answers - row.taskcount).ok
    IN SelectSeq(q, granted)

\* C29 as stated: offset semantics of the locked policy.  `skipped` counts
\* the candidates whose lock attempt was refused (quota exhausted), not the
\* candidates on which the identity got or had the lock; the task returned
\* is the first candidate on which acquire succeeds while that count equals
\* offset.
C29_OffsetCountsRefused ==
    [][ \A r \in WalkRequesters, o \in Offsets :
          (GetLockedTask(r, 2, o) /\ ~InvalidOffset(o))
          => LET q == LockedRows(task_state, task_run, 2, r.user_id)
                 ok(i) == acquire_lock(locks, 2, q[i].task_id, r.user_id,
                                       q[i].n_answers - q[i].taskcount).ok
                 hits == { i \in 1..Len(q) :
                             ok(i) /\ Cardinality({ j \in 1..(i - 1) : ~ok(j) }) = o }
             IN last'.result =
                  IF hits = {} THEN NoResult
                  ELSE Tasks(<<q[CHOOSE i \in hits : \A j \in hits : i <= j].task_id>>) ]_vars

\* C29 amended: `skipped` counts the candidates on which acquire succeeded
\* and that were passed over; refused candidates are not counted.  The task
\* returned is the candidate number offset+1 among those on which acquire
\* succeeds, and None when there are not that many.
C29_OffsetCountsGranted ==
    [][ \A r \in WalkRequesters, o \in Offsets :
          (GetLockedTask(r, 2, o) /\ ~InvalidOffset(o))
          => LET granted == GrantedRows(r, 2)
             IN last'.result = IF Len(granted) > o
                               THEN Tasks(<<granted[o + 1].task_id>>)
                               ELSE NoResult ]_vars

\* With offset 1 and no candidate refused, the second candidate was
\* returned and the first one was passed over after its lock was taken.
C29_Witness ==
    /\ last.op = "get_locked_task" /\ last.arg = 1
    /\ last.result = Tasks(<<4>>)
    /\ has_lock(locks, 2, 3, last.user.user_id)
    /\ Cardinality(Holders(locks, KeyOf(3))) < Task[3].n_answers

\* Tasks of project p on which the identity holds a lease.
Leases(lk, p, user_id) == { t \in TasksOf(p) : has_lock(lk, p, t, user_id) }

\* C30: a single get_locked_task call acquires a lock only on the task it
\* returns: after the call the tasks on which the identity holds a lease
\* are those it held before and at most the returned task; when the call
\* returns None, also with offset 1 or 2, the identity holds no lease it
\* did not hold before.
C30_LockOnlyReturned ==
    [][ \A r \in WalkRequesters, o \in Offsets :
          GetLockedTask(r, 2, o)
          => Leases(locks', 2, r.user_id)
               \subseteq Leases(locks, 2, r.user_id) \cup SeqToSet(last'.result.tasks) ]_vars

\* --------------------------- a project larger than the batch of the query
\* Project 4 under the locked policy, with one task more than the candidate
\* query reads.  Contributors other than the requesters are at work in the
\* project: each took, through acquire_lock, the first task of the batch
\* that had no holder.  Their leases are kept under client id 2, one task
\* each.
BatchRequesters == { Registered(1) }

OtherContributor ==
    LET q == LockedRows(task_state, task_run, 4, NoUser)
        free(row) == Holders(locks, KeyOf(row.task_id)) = {}
        f == SelectSeq(q, free)
    IN /\ Alone
       /\ f # <<>>
       /\ CallAcquire(f[1].task_id, 2, FALSE)

NextBatch ==
    \/ OtherContributor
    \/ \E r \in BatchRequesters : GetLockedTask(r, 4, 0)
    \/ \E r \in BatchRequesters, t \in TasksOf(4) : Alone /\ SubmitTaskRun(r, t)
    \/ \E r \in BatchRequesters : AfterSave(r)

SpecBatch == InitLM /\ [][NextBatch]_vars

C32_QuotaArgument ==
    [][ \A r \in LockedRequesters :
          GetLockedTaskStep(r)
          => LET row == Head(rows[r])
                 t == row.task_id
                 p == req[r].project_id
             IN /\ row.n_answers - row.taskcount
                     = Task[t].n_answers - TaskCount(task_run, t)
                /\ (TaskCount(task_run, t) >= Task[t].n_answers
                      /\ ~has_lock(locks, p, t, r.user_id))
                     => ~has_lock(locks', p, t, r.user_id) ]_vars

\* C33: availability of the locked policy.  With offset 0, get_locked_task
\* returns None only if no eligible task of the project (not completed, not
\* attempted by the identity) has a free quota slot for the identity;
\* whenever some eligible task of the project is grantable, a task is
\* returned.
C33_Availability ==
    [][ \A r \in BatchRequesters :
          GetLockedTask(r, 4, 0)
          => LET grantable ==
                   { t \in Eligible(r, 4) :
                       acquire_lock(locks, 4, t, r.user_id,
                                    Task[t].n_answers - TaskCount(task_run, t)).ok }
             IN (last'.result = NoResult) <=> (grantable = {}) ]_vars

\* C34: policy agreement between selection and gating.  For every
\* scheduler name a project can have, sched.new_task selects with the
\* locked policy if and only if can_post, can_read_task and after_save treat
\* the project as locked; a lock acquired while serving a request is one
\* that can_post checks and that after_save releases.
C34_PolicyAgreement ==
    /\ \A sc \in DispatchScheds :
          (sched_map(sc) = "get_locked_task")
            <=> (get_project_scheduler([p \in Projects |-> sc], 1) = "locked_scheduler")
    /\ \A r \in Requesters :
          pc[r] = "loop"
          => get_project_scheduler(project_info, req[r].project_id) = "locked_scheduler"
    /\ (last.op = "get_locked_task" /\ last.result.status = "tasks")
         => LET p == last.project_id
                t == last.task_id
            IN /\ \A u \in UserIds :
                     can_post(project_info, locks, p, t, u) = has_lock(locks, p, t, u)
               /\ after_save(project_info, locks, p, t, last.user.user_id)
                    = release_lock(locks, p, t, last.user.user_id)
               /\ can_read_task(project_info, locks, t, Viewer[1])
                    = has_lock(locks, p, t, Viewer[1].id)

\* ------------------------------------------- requesters without a user id
\* Project 1 under the locked policy, asked for its task by two registered
\* users and by two anonymous requesters at different addresses.
LeaseRequesters == { r \in Requesters : r.external_uid = NoStr }

NextLease ==
    \/ \E r \in LeaseRequesters : GetLockedTask(r, 1, 0)
    \/ \E r \in LeaseRequesters : Alone /\ SubmitTaskRun(r, 1)
    \/ \E r \in LeaseRequesters : AfterSave(r)
    \/ Tick

SpecLease == InitLM /\ [][NextLease]_vars

\* C35: a lock is a reservation by one identity.  Two distinct requesters
\* hold distinct leases: when get_locked_task hands the task to one
\* requester, has_lock and can_post of every other requester are as they
\* were before, and so never satisfied by the lease just granted.
C35_LeasePerIdentity ==
    [][ \A r1 \in LeaseRequesters :
          (GetLockedTask(r1, 1, 0) /\ last'.result.status = "tasks")
          => \A r2 \in LeaseRequesters \ {r1} :
                /\ has_lock(locks', 1, last'.task_id, r2.user_id)
                     = has_lock(locks, 1, last'.task_id, r2.user_id)
                /\ can_post(project_info', locks', 1, last'.task_id, r2.user_id)
                     = can_post(project_info, locks, 1, last'.task_id, r2.user_id) ]_vars

\* C36: the incremental policy selects among the full candidate set.  For
\* every task eligible for the identity in the project, get_incremental_task
\* can return that task, whatever limit and offset the caller passed.
C36_IncrementalFullSet ==
    \A r \in SelectRequesters, l \in Limits, o \in PageOffsets :
       { res[1] : res \in { x \in get_incremental_task(task_state, task_run, 2, r, l, o) :
                              x # <<>> } }
         = Eligible(r, 2)

\* ------------------------------------------------ the answers of a task
\* The payloads contributors submit (TaskRun.info).
Infos == {1, 2}
\* No 'last_answer' entry in task.info.
NoAnswer == 0

\* The TaskRun row with the two columns the incremental policy reads for
\* the last answer.
TaskRunAnswer(r, t, finish_time, info) ==
    [task_id |-> t, project_id |-> Task[t].project_id,
     user_id |-> TaskRunRow(r, t).user_id,
     user_ip |-> TaskRunRow(r, t).user_ip,
     external_uid |-> TaskRunRow(r, t).external_uid,
     finish_time |-> finish_time, info |-> info]

\* The greatest finish_time stored, 0 when there is no TaskRun.
LastFinishTime(tr) ==
    IF TaskRuns(tr) = {} THEN 0
    ELSE CHOOSE m \in { x.finish_time : x \in TaskRuns(tr) } :
            \A x \in TaskRuns(tr) : x.finish_time <= m

\* The TaskRun endpoint storing an answer: finish_time is the time of the
\* submission, which is not before the finish_time of any stored row.
SubmitAnswer(r, t, info) ==
    \E finish_time \in { LastFinishTime(task_run), LastFinishTime(task_run) + 1 } \ {0} :
       LET p == Task[t].project_id
           tr == task_run (+) SetToBag({TaskRunAnswer(r, t, finish_time, info)})
       IN /\ pc[r] = "idle"
          /\ WorkerFree
          /\ BagCardinality(task_run) < MaxTaskRuns
          /\ can_post(project_info, locks, p, t, r.user_id)
          /\ task_run' = tr
          /\ task_state' = [task_state EXCEPT ![t] =
                               IF TaskCount(tr, t) >= Task[t].n_answers THEN "completed" ELSE @]
          /\ pc' = [pc EXCEPT ![r] = "saved"]
          /\ req' = [req EXCEPT ![r] = [project_id |-> p, task_id |-> t, offset |-> 0]]
          /\ last' = Op("task_run", p, t, r, 0, NoResult)
          /\ UNCHANGED <<project_info, locks, rows, skipped, trace>>

\* q.first() with the rows of the task by ascending finish_time.
last_task_run_oldest(tr, task_id) ==
    LET R == { x \in TaskRuns(tr) : x.task_id = task_id }
    IN { x \in R : \A y \in R : y.finish_time >= x.finish_time }

\* q.first() of the TaskRuns of the task by finish_time descending: the rows
\* it can be, none when the task has no TaskRun.
last_task_run(tr, task_id) ==
    LET R == { x \in TaskRuns(tr) : x.task_id = task_id }
    IN { x \in R : \A y \in R : y.finish_time <= x.finish_time }

\* task.info['last_answer'] of the task get_incremental_task returns: the
\* values it can have.
last_answer(tr, task_id) ==
    IF last_task_run(tr, task_id) = {} THEN {NoAnswer}
    ELSE { x.info : x \in last_task_run(tr, task_id) }

\* new_task routed to get_incremental_task; the last answer attached to the
\* task is remembered.
GetIncrementalAnswer(r, p, limit, offset) ==
    /\ pc[r] = "idle"
    /\ sched_map(project_info[p]) = "get_incremental_task"
    /\ \E res \in get_incremental_task(task_state, task_run, p, r, limit, offset) :
          IF res = <<>>
          THEN last' = Op("get_incremental_task", p, NoTask, r, NoAnswer, NoResult)
          ELSE \E a \in last_answer(task_run, res[1]) :
                  last' = Op("get_incremental_task", p, res[1], r, a, Tasks(res))
    /\ UNCHANGED <<project_info, task_state, task_run, locks, pc, rows, skipped, req, trace>>

\* Project 5 under the incremental policy: its task takes three answers.
AnswerRequesters == SelectRequesters

InitAnswer ==
    /\ InitCommon
    /\ project_info = [p \in Projects |-> IF p = 5 THEN "incremental" ELSE "default"]

NextAnswer ==
    \/ \E r \in AnswerRequesters : GetIncrementalAnswer(r, 5, 1, 0)
    \/ \E r \in AnswerRequesters, t \in TasksOf(5), i \in Infos : Alone /\ SubmitAnswer(r, t, i)
    \/ \E r \in AnswerRequesters : AfterSave(r)

SpecAnswer == InitAnswer /\ [][NextAnswer]_vars

\* C37: last answer of the incremental policy.  When the task chosen by
\* get_incremental_task has at least one TaskRun, from any identity, the
\* task returned carries as 'last_answer' the payload of a TaskRun with the
\* greatest finish time for that task; when it has none, no 'last_answer' is
\* attached.
C37_IncrementalLastAnswer ==
    (last.op = "get_incremental_task" /\ last.result.status = "tasks")
    => LET t == last.result.tasks[1]
           R == { x \in TaskRuns(task_run) : x.task_id = t }
       IN IF R = {} THEN last.arg = NoAnswer
          ELSE \E x \in R : /\ x.info = last.arg
                            /\ \A y \in R : y.finish_time <= x.finish_time

\* The task was returned with the payload of the later of two answers that
\* differ, the two given by other identities.
C37_Witness ==
    /\ last.op = "get_incremental_task" /\ last.result.status = "tasks"
    /\ \E x, y \in TaskRuns(task_run) :
          /\ x.task_id = last.task_id /\ y.task_id = last.task_id
          /\ x.finish_time < y.finish_time
          /\ x.info # y.info
          /\ x.user_id # y.user_id
          /\ last.arg = y.info

C39_RepeatIdempotent ==
    (last.op = "get_locked_task" /\ last.arg = 0 /\ last.result.status = "tasks")
    => LET u == last.user.user_id
           again == get_locked_task(task_state, task_run, locks, 2, u, 0)
       IN /\ has_lock(locks, 2, last.task_id, u)
          /\ again.result = last.result
          /\ \A t \in TasksOf(2) : Holders(again.locks, KeyOf(t)) = Holders(locks, KeyOf(t))
          /\ Leases(again.locks, 2, u) = Leases(locks, 2, u)

\* The task of quota 1 was handed to a requester while a task before it in
\* the order is at quota and a task after it is free.
C39_Witness ==
    /\ last.op = "get_locked_task" /\ last.arg = 0
    /\ last.result = Tasks(<<4>>)
    /\ Holders(locks, KeyOf(4)) = {last.user.user_id}
    /\ task_state[3] # "completed" /\ ~has_lock(locks, 2, 3, last.user.user_id)
    /\ task_state[2] # "completed" /\ Holders(locks, KeyOf(2)) = {}

\* Ids of one and of several digits.
KeyIds == {1, 2, 11, 12}

\* C40: lock keys are per (project, task).  get_key maps distinct (project
\* id, task id) pairs to distinct keys, so that acquire, release and expiry
\* on one task never change the lease holders of another task, or of the
\* same task id in another project.
C40_KeyDistinctness ==
    [][ /\ \A p1, p2, t1, t2 \in KeyIds :
              <<p1, t1>> # <<p2, t2>> => get_key(p1, t1) # get_key(p2, t2)
        /\ \A t \in LMTasks, u \in UserIds :
              (CallAcquire(t, u, FALSE) \/ CallRelease(t, u, FALSE))
              => \A k \in Keys \ {get_key(Task[t].project_id, t)} : locks'[k] = locks[k]
        /\ Tick => \A k \in Keys : Holders(locks', k) = { c \in UserIds : locks[k][c] > 1 } ]_vars

\* A lease on task 1 was granted while task 2, of another project, has a
\* holder that holds no lease on task 1.
C40_Witness ==
    /\ last.op = "acquire_lock" /\ last.task_id = 1 /\ last.result.status = "true"
    /\ ~last.held
    /\ \E c \in Holders(locks, KeyOf(2)) : c \notin Holders(locks, KeyOf(1))

====
